---- MODULE Spec2Model ----
(***************************************************************************)
(* Sensor ingestion service: the POST handlers of app_main.py and main.py  *)
(* and the GET /data/{deviceId} handler of app_main.py, over one MongoDB   *)
(* collection.  Python integers are unbounded and Python floats are IEEE   *)
(* doubles; both are modelled exactly: integers as little-endian sequences *)
(* of base-1000 limbs (no high zero limb, zero is << >>), doubles as a     *)
(* pair [m, e] standing for m / 2^e with m < 2^53 + 1.                     *)
(***************************************************************************)
EXTENDS Integers, Sequences, FiniteSets, TLC

(***************************************************************************)
(* Unbounded naturals.                                                     *)
(***************************************************************************)
RECURSIVE FromInt(_)
FromInt(n) == IF n = 0 THEN << >> ELSE <<n % 1000>> \o FromInt(n \div 1000)

RECURSIVE ToInt(_)
ToInt(a) == IF a = << >> THEN 0 ELSE Head(a) + 1000 * ToInt(Tail(a))

RECURSIVE MulCarry(_, _, _)
MulCarry(a, c, carry) ==
    IF a = << >> THEN FromInt(carry)
    ELSE LET p == Head(a) * c + carry
         IN  <<p % 1000>> \o MulCarry(Tail(a), c, p \div 1000)

MulSmall(a, c) == IF c = 0 THEN << >> ELSE MulCarry(a, c, 0)

RECURSIVE DivSmall(_, _)
DivSmall(a, d) ==
    IF a = << >> THEN [q |-> << >>, r |-> 0]
    ELSE LET hi  == DivSmall(Tail(a), d)
             cur == hi.r * 1000 + Head(a)
         IN  [q |-> IF hi.q = << >> /\ cur \div d = 0 THEN << >>
                    ELSE <<cur \div d>> \o hi.q,
              r |-> cur % d]

RECURSIVE AddCarry(_, _, _)
AddCarry(a, b, carry) ==
    IF a = << >> /\ b = << >> THEN FromInt(carry)
    ELSE LET x == IF a = << >> THEN 0 ELSE Head(a)
             y == IF b = << >> THEN 0 ELSE Head(b)
             s == x + y + carry
         IN  <<s % 1000>> \o AddCarry(IF a = << >> THEN a ELSE Tail(a),
                                      IF b = << >> THEN b ELSE Tail(b), s \div 1000)

BigAdd(a, b) == AddCarry(a, b, 0)

RECURSIVE BigLess(_, _)
BigLess(a, b) ==
    IF Len(a) # Len(b) THEN Len(a) < Len(b)
    ELSE IF a = << >> THEN FALSE
    ELSE LET n == Len(a)
         IN  IF a[n] # b[n] THEN a[n] < b[n]
             ELSE BigLess(SubSeq(a, 1, n - 1), SubSeq(b, 1, n - 1))

BigLeq(a, b) == a = b \/ BigLess(a, b)

RECURSIVE Norm(_)
Norm(a) == IF a = << >> THEN a
           ELSE IF a[Len(a)] = 0 THEN Norm(SubSeq(a, 1, Len(a) - 1)) ELSE a

RECURSIVE SubBorrow(_, _, _)
SubBorrow(a, b, borrow) ==
    IF a = << >> THEN << >>
    ELSE LET y == IF b = << >> THEN 0 ELSE Head(b)
             s == Head(a) - y - borrow
         IN  <<s % 1000>> \o SubBorrow(Tail(a), IF b = << >> THEN b ELSE Tail(b),
                                       IF s < 0 THEN 1 ELSE 0)

BigSub(a, b) == Norm(SubBorrow(a, b, 0))

RECURSIVE Shl(_, _)
Shl(a, k) == IF k = 0 THEN a
             ELSE IF k >= 20 THEN Shl(MulSmall(a, 2^20), k - 20)
             ELSE MulSmall(a, 2^k)

RECURSIVE Shr(_, _)
Shr(a, k) == IF k = 0 THEN a
             ELSE IF k >= 20 THEN Shr(DivSmall(a, 2^20).q, k - 20)
             ELSE DivSmall(a, 2^k).q

IsOdd(a) == a # << >> /\ Head(a) % 2 = 1

RECURSIVE BitLen(_)
BitLen(a) == IF a = << >> THEN 0 ELSE 1 + BitLen(DivSmall(a, 2).q)


(***************************************************************************)
(* IEEE-754 doubles, round-to-nearest-even.  Timestamps are taken from     *)
(* 0 .. 2^53 - 1, so every double the handlers compute is non-negative     *)
(* and below 2^53 and e >= 0 throughout.                                   *)
(***************************************************************************)
\* n / d rounded to the nearest integer, ties to even.
RoundDiv(n, d) ==
    LET qr == DivSmall(n, d)
        up == 2 * qr.r > d \/ (2 * qr.r = d /\ IsOdd(qr.q))
    IN  IF up THEN BigAdd(qr.q, <<1>>) ELSE qr.q

FloatZero == [m |-> << >>, e |-> 0]

\* The least k with n * 2^k >= lo.
RECURSIVE Scale(_, _)
Scale(n, lo) == IF BigLeq(lo, n) THEN 0 ELSE 1 + Scale(MulSmall(n, 2), lo)

\* int / int (true division): the double nearest to n / d.
FloatDiv(n, d) ==
    IF n = << >> THEN FloatZero
    ELSE LET k == Scale(n, MulSmall(Shl(<<1>>, 52), d))
         IN  [m |-> RoundDiv(Shl(n, k), d), e |-> k]

\* float * int for an int that is itself a double: the double nearest to x * c.
FloatMul(x, c) ==
    LET p == MulSmall(x.m, c)
        s == BitLen(p) - 53
    IN  IF s <= 0 THEN [m |-> p, e |-> x.e]
        ELSE [m |-> RoundDiv(p, 2^s), e |-> x.e - s]

\* int(x): truncation; also the integer part modf yields.
Trunc(x) == Shr(x.m, x.e)

\* The fractional part modf yields (exact).
Frac(x) == [m |-> BigSub(x.m, Shl(Trunc(x), x.e)), e |-> x.e]

\* round(x) to an integer, ties to even.
RoundHalfEven(x) ==
    LET q    == Trunc(x)
        r2   == MulSmall(BigSub(x.m, Shl(q, x.e)), 2)
        unit == Shl(<<1>>, x.e)
        up   == BigLess(unit, r2) \/ (r2 = unit /\ IsOdd(q))
    IN  IF up THEN BigAdd(q, <<1>>) ELSE q

(***************************************************************************)
(* Timestamp conversions.                                                  *)
(***************************************************************************)
MsPerSecond == 1000

UsPerSecond == 1000000

\* datetime.max is 9999-12-31 23:59:59.999999: 253402300799 s after the epoch.
DatetimeMaxSeconds == <<799, 300, 402, 253>>

\* datetime.utcfromtimestamp(x) for a float x >= 0: a naive datetime, held as
\* whole seconds since 1970-01-01 and microseconds.
utcfromtimestamp(x) ==
    LET sec == Trunc(x)
        us  == ToInt(RoundHalfEven(FloatMul(Frac(x), UsPerSecond)))
    IN  IF us >= UsPerSecond THEN [sec |-> BigAdd(sec, <<1>>), us |-> us - UsPerSecond]
        ELSE [sec |-> sec, us |-> us]

\* utcfromtimestamp raises ValueError ("year 10000 is out of range").
YearOutOfRange(dt) == BigLess(DatetimeMaxSeconds, dt.sec)

\* document["timestamp"] / 1000 handed to utcfromtimestamp.
ToDatetime(timestamp) == utcfromtimestamp(FloatDiv(timestamp, MsPerSecond))

\* BSON stores a datetime as whole milliseconds since the epoch.
EncodeDatetime(dt) == BigAdd(MulSmall(dt.sec, 1000), FromInt(dt.us \div 1000))

\* The naive datetime the driver hands back for a BSON datetime.
DecodeDatetime(millis) ==
    LET qr == DivSmall(millis, 1000) IN [sec |-> qr.q, us |-> qr.r * 1000]

\* timedelta.total_seconds() of dt - epoch.
total_seconds(dt) ==
    FloatDiv(BigAdd(MulSmall(dt.sec, UsPerSecond), FromInt(dt.us)), UsPerSecond)

\* int((dt - epoch).total_seconds() * 1000)
ToMillis(dt) == Trunc(FloatMul(total_seconds(dt), MsPerSecond))

(***************************************************************************)
(* Request schemas (pydantic models) and JSON payloads.  A JSON value is   *)
(* [type, val]; a field the body does not carry is Absent.  The numbers of *)
(* a values bundle are kept by their JSON type only: no handler reads them.*)
(***************************************************************************)
TrafficValues ==
    [peaton |-> "int", bicicleta |-> "int", carro |-> "int",
     moto |-> "int", bus |-> "int", camion |-> "int"]

EnvironmentalValues ==
    [solarRadiationMax |-> "int", solarRadiationMin |-> "int", solarRadiationAvg |-> "int",
     uvIndexMax |-> "float", uvIndexMin |-> "float", uvIndexAvg |-> "float",
     temperatureMax |-> "float", temperatureMin |-> "float", temperatureAvg |-> "float",
     humidityMax |-> "float", humidityMin |-> "float", humidityAvg |-> "float"]

WeatherValues ==
    [rainTicks |-> "float", windSpeedMax |-> "int", windSpeedMin |-> "int",
     windSpeedAvg |-> "int", windDirectionAvg |-> "int"]

AirQualityValues ==
    [massPM2_5Max |-> "float", massPM2_5Min |-> "float", massPM2_5Avg |-> "float",
     massPM10_0Max |-> "float", massPM10_0Min |-> "float", massPM10_0Avg |-> "float",
     noiseMax |-> "float", noiseMin |-> "float", noiseAvg |-> "float"]

Absent == [type |-> "absent"]

JStr(s) == [type |-> "str", val |-> s]

JInt(n) == [type |-> "int", val |-> n]

JObject(o) == [type |-> "object", val |-> o]

\* What a pydantic field of the declared type takes: an int field takes a
\* JSON integer, a float field any JSON number, neither a non-numeric string.
Accepts(declared, given) ==
    IF declared = "int" THEN given = "int" ELSE given \in {"int", "float"}

\* BaseSensorData plus the values model: every declared field is required.
Validates(schema, body) ==
    /\ body.deviceId.type = "str"
    /\ body.timestamp.type = "int"
    /\ body.values.type = "object"
    /\ \A f \in DOMAIN schema :
          /\ f \in DOMAIN body.values.val
          /\ Accepts(schema[f], body.values.val[f])

(***************************************************************************)
(* The two applications and their routes.                                  *)
(***************************************************************************)
HTTP_200_OK == 200

HTTP_201_CREATED == 201

HTTP_404_NOT_FOUND == 404

HTTP_422_UNPROCESSABLE_ENTITY == 422

HTTP_500_INTERNAL_SERVER_ERROR == 500

DefaultLimit == 100

PostRoutes == {"/traffic-data/", "/environmental-data/", "/weather-data/", "/airquality-data/"}

GetRoute == "/data/{deviceId}"

\* The model each POST route declares for its body.
SchemaOf(route) ==
    CASE route = "/traffic-data/"       -> TrafficValues
      [] route = "/environmental-data/" -> EnvironmentalValues
      [] route = "/weather-data/"       -> WeatherValues
      [] route = "/airquality-data/"    -> AirQualityValues

\* The data_type each app_main.py endpoint passes to insert_sensor_data.
DataTypeOf(route) ==
    CASE route = "/traffic-data/"       -> "traffic"
      [] route = "/environmental-data/" -> "environmental"
      [] route = "/weather-data/"       -> "weather"
      [] route = "/airquality-data/"    -> "air_quality"

\* The status of a handler that returns: app_main.py's POST decorators set
\* status_code=201, main.py's set none and a route without one answers 200.
SuccessStatus(app, route) ==
    IF app = "app_main" /\ route \in PostRoutes THEN HTTP_201_CREATED ELSE HTTP_200_OK

\* data.dict() with the timestamp replaced by the datetime; app_main.py's
\* insert_sensor_data also sets data_type, main.py's handlers do not.  The
\* values bundle travels with the document unread and is left out here.
Document(app, route, body, dt) ==
    LET base == [deviceId |-> body.deviceId.val, timestamp |-> dt]
    IN  IF app = "app_main" THEN base @@ [data_type |-> DataTypeOf(route)] ELSE base

\* str(ObjectId)
ObjectIdStr(oid) == <<"oid", oid>>

\* (mutation: the driver hands out the same ObjectId again)
ReusedObjectId(n) == 1

\* The ObjectId the driver generates after having generated n: a fresh one.
NewObjectId(n) == n + 1

(***************************************************************************)
(* The collection: find({"deviceId": d}).sort("timestamp", -1).limit(n)    *)
(* and to_list(length=n).                                                  *)
(***************************************************************************)
Min(a, b) == IF a < b THEN a ELSE b

Abs(n) == IF n < 0 THEN 0 - n ELSE n

\* (mutation: the filter is dropped)
MatchesAny(doc, deviceId) == TRUE

\* The filter {"deviceId": deviceId}.
Matches(doc, deviceId) == doc.deviceId = deviceId

\* (mutation: sort("timestamp", 1))
InAscendingOrder(first, second) == BigLeq(first.timestamp, second.timestamp)

\* sort("timestamp", -1): the order between two adjacent documents.
InSortOrder(first, second) == BigLeq(second.timestamp, first.timestamp)

\* Every order the server may return the matching documents in: descending
\* by timestamp, documents of equal timestamp in any order.
SortedMatches(coll, deviceId) ==
    LET M == {i \in 1..Len(coll) : Matches(coll[i], deviceId)}
        n == Cardinality(M)
    IN  { [i \in 1..n |-> coll[s[i]]] :
            s \in { f \in [1..n -> M] :
                      /\ \A i, j \in 1..n : i # j => f[i] # f[j]
                      /\ \A i \in 1..(n - 1) : InSortOrder(coll[f[i]], coll[f[i + 1]]) } }

\* cursor.limit(n): 0 is no limit, a negative n limits to its absolute value.
CursorLimit(docs, limit) ==
    IF limit = 0 THEN docs ELSE SubSeq(docs, 1, Min(Abs(limit), Len(docs)))

\* (mutation: to_list hands over the whole cursor)
ToListUncapped(docs, length) == docs

\* to_list(length): at most length documents of the cursor.
ToList(docs, length) == SubSeq(docs, 1, Min(length, Len(docs)))

\* The loop over results: _id to str, timestamp back to epoch milliseconds.
ConvertItem(doc) ==
    [doc EXCEPT !._id = ObjectIdStr(@), !.timestamp = ToMillis(DecodeDatetime(@))]

(***************************************************************************)
(* Workloads: which clients send requests, which devices, timestamps and   *)
(* limits the requests carry, and how many documents the collection takes. *)
(***************************************************************************)
MaxRecords == 2

QueryMaxRecords == 3

ConcurrentMaxRecords == 2

T2023 == <<0, 0, 0, 700, 1>>  \* 1700000000000

T2038 == <<2, 648, 483, 147, 2>>  \* 2147483648002

T10000 == <<0, 0, 800, 300, 402, 253>>  \* 253402300800000, 10000-01-01

Limits == {0 - 1, 0, 1, DefaultLimit}

\* Every handler of both applications, one client, one device.
FullWorkload ==
    [clients |-> {"c1"}, devices |-> {"dev-A"}, timestamps |-> {T2023, T2038, T10000},
     malformed |-> TRUE, capacity |-> MaxRecords]

\* Two devices and timestamps that tie and that differ, for the query.
QueryWorkload ==
    [clients |-> {"c1"}, devices |-> {"dev-A", "dev-B"}, timestamps |-> {T2023, T2038},
     malformed |-> FALSE, capacity |-> QueryMaxRecords]

\* Two clients with requests in flight at the same time.
ConcurrentWorkload ==
    [clients |-> {"c1", "c2"}, devices |-> {"dev-A"}, timestamps |-> {T2023},
     malformed |-> FALSE, capacity |-> ConcurrentMaxRecords]

(***************************************************************************)
(* State.                                                                  *)
(*   workload    the workload, fixed for a behaviour                       *)
(*   collection  the documents of the MongoDB collection, in insert order  *)
(*   oids        how many ObjectIds the driver has handed out              *)
(*   req         per client, the request in flight or just answered        *)
(*   sent        history: per stored _id, the timestamp of its payload     *)
(***************************************************************************)
VARIABLES workload, collection, oids, req, sent

vars == <<workload, collection, oids, req, sent>>

ValidBodies(route) ==
    { [deviceId |-> JStr(d), timestamp |-> JInt(t), values |-> JObject(SchemaOf(route))] :
        d \in workload.devices, t \in workload.timestamps }

\* Bodies that miss the schema: a field left out, a string where a number is
\* declared, or the values bundle of another category.
MalformedBodies(route) ==
    LET ok    == [deviceId |-> JStr("dev-A"), timestamp |-> JInt(T2023),
                  values |-> JObject(SchemaOf(route))]
        f     == CHOOSE g \in DOMAIN SchemaOf(route) : TRUE
        other == IF route = "/weather-data/" THEN TrafficValues ELSE WeatherValues
    IN  IF ~workload.malformed THEN {}
        ELSE { [ok EXCEPT !.deviceId = Absent],
               [ok EXCEPT !.timestamp = Absent],
               [ok EXCEPT !.timestamp = JStr("abc")],
               [ok EXCEPT !.values = Absent],
               [ok EXCEPT !.values =
                   JObject([g \in DOMAIN SchemaOf(route) \ {f} |-> SchemaOf(route)[g]])],
               [ok EXCEPT !.values = JObject([SchemaOf(route) EXCEPT ![f] = "str"])],
               [ok EXCEPT !.values = JObject(other)] }

Bodies(route) == ValidBodies(route) \cup MalformedBodies(route)

Idle == [pc |-> "idle"]

Response(status, body) == [status |-> status, body |-> body]

\* raise HTTPException(status_code=500, detail=str(e))
ServerError(message) == Response(HTTP_500_INTERNAL_SERVER_ERROR, [detail |-> message])

Finish(call, response) == call @@ [pc |-> "done", response |-> response]

InitWith(w) ==
    /\ workload = w
    /\ collection = << >>
    /\ oids = 0
    /\ req = [c \in w.clients |-> Idle]
    /\ sent = << >>

Init == InitWith(FullWorkload)

(***************************************************************************)
(* POST handlers up to "await collection.insert_one(document)".            *)
(***************************************************************************)
\* The body of both applications' POST handlers: build the document, convert
\* the timestamp (which may raise), then wait for the insert.
BuildDocument(c, app, route, body) ==
    LET call == [app |-> app, route |-> route, body |-> body]
        dt   == ToDatetime(body.timestamp.val)
    IN  IF YearOutOfRange(dt)
        THEN req' = [req EXCEPT ![c] = Finish(call, ServerError("year 10000 is out of range"))]
        ELSE req' = [req EXCEPT ![c] =
                        call @@ [pc |-> "insert_one",
                                 document |-> Document(app, route, body, dt)]]

\* A POST request reaches a route: FastAPI validates the body against the
\* handler's model and answers 422 itself when it does not fit.
Post(c, app, route, body) ==
    /\ req[c].pc = "idle"
    /\ IF Validates(SchemaOf(route), body)
       THEN BuildDocument(c, app, route, body)
       ELSE req' = [req EXCEPT ![c] =
                       Finish([app |-> app, route |-> route, body |-> body],
                              Response(HTTP_422_UNPROCESSABLE_ENTITY,
                                       [detail |-> "validation error"]))]
    /\ UNCHANGED <<workload, collection, oids, sent>>

insert_sensor_data(c, route) == \E body \in Bodies(route) : Post(c, "app_main", route, body)

receive_traffic_data(c) == insert_sensor_data(c, "/traffic-data/")

receive_environmental_data(c) == insert_sensor_data(c, "/environmental-data/")

receive_weather_data(c) == insert_sensor_data(c, "/weather-data/")

receive_airquality_data(c) == insert_sensor_data(c, "/airquality-data/")

main_receive_environmental_data(c) ==
    \E body \in Bodies("/environmental-data/") : Post(c, "main", "/environmental-data/", body)

main_receive_weather_data(c) ==
    \E body \in Bodies("/weather-data/") : Post(c, "main", "/weather-data/", body)

main_receive_airquality_data(c) ==
    \E body \in Bodies("/airquality-data/") : Post(c, "main", "/airquality-data/", body)

(***************************************************************************)
(* insert_one completes: the document is stored and the handler returns,   *)
(* or the driver raises and the handler's except clause answers 500.       *)
(***************************************************************************)
\* The document as stored: the datetime as BSON milliseconds, _id added.
StoredDocument(document, oid) ==
    [document EXCEPT !.timestamp = EncodeDatetime(@)] @@ [_id |-> oid]

InsertAcknowledged(c) ==
    LET r   == req[c]
        oid == NewObjectId(oids)
    IN  /\ r.pc = "insert_one"
        /\ Len(collection) < workload.capacity
        /\ collection' = Append(collection, StoredDocument(r.document, oid))
        /\ oids' = oids + 1
        /\ sent' = (oid :> r.body.timestamp.val) @@ sent
        /\ req' = [req EXCEPT ![c] =
                      Finish([app |-> r.app, route |-> r.route, body |-> r.body,
                              inserted_id |-> oid],
                             Response(SuccessStatus(r.app, r.route),
                                      [status |-> "success", deviceId |-> r.body.deviceId.val]))]
        /\ UNCHANGED workload

\* (mutation: the failure path leaves the document behind)
InsertRaisesAfterStoring(c) ==
    LET r == req[c]
    IN  /\ r.pc = "insert_one"
        /\ Len(collection) < workload.capacity
        /\ collection' = Append(collection, StoredDocument(r.document, NewObjectId(oids)))
        /\ oids' = oids + 1
        /\ req' = [req EXCEPT ![c] =
                      Finish([app |-> r.app, route |-> r.route, body |-> r.body],
                             ServerError("insert failed"))]
        /\ UNCHANGED <<workload, sent>>

InsertRaises(c) ==
    LET r == req[c]
    IN  /\ r.pc = "insert_one"
        /\ req' = [req EXCEPT ![c] =
                      Finish([app |-> r.app, route |-> r.route, body |-> r.body],
                             ServerError("insert failed"))]
        /\ UNCHANGED <<workload, collection, oids, sent>>

insert_one(c) == InsertAcknowledged(c) \/ InsertRaises(c)

(***************************************************************************)
(* GET /data/{deviceId}?limit=N (app_main.py only).                        *)
(***************************************************************************)
\* Up to the await: to_list raises ValueError at once on a negative length.
get_device_data(c) ==
    /\ req[c].pc = "idle"
    /\ \E deviceId \in workload.devices, limit \in Limits :
          LET call == [app |-> "app_main", route |-> GetRoute,
                       deviceId |-> deviceId, limit |-> limit]
          IN  IF limit < 0
              THEN req' = [req EXCEPT ![c] =
                              Finish(call, ServerError("length must be non-negative"))]
              ELSE req' = [req EXCEPT ![c] = call @@ [pc |-> "to_list"]]
    /\ UNCHANGED <<workload, collection, oids, sent>>

\* What the handler answers once to_list has returned results.
QueryResponse(results) ==
    IF results = << >>
    THEN \* raise HTTPException(404) inside the try: the handler's own
         \* "except Exception" catches it and raises the 500.
         ServerError("404: Dispositivo no encontrado")
    ELSE Response(HTTP_200_OK, [i \in 1..Len(results) |-> ConvertItem(results[i])])

FindReturns(c) ==
    LET r == req[c]
    IN  /\ r.pc = "to_list"
        /\ \E docs \in SortedMatches(collection, r.deviceId) :
              LET results == ToList(CursorLimit(docs, r.limit), r.limit)
              IN  req' = [req EXCEPT ![c] =
                             Finish([app |-> r.app, route |-> r.route, deviceId |-> r.deviceId,
                                     limit |-> r.limit, results |-> results],
                                    QueryResponse(results))]
        /\ UNCHANGED <<workload, collection, oids, sent>>

FindRaises(c) ==
    LET r == req[c]
    IN  /\ r.pc = "to_list"
        /\ req' = [req EXCEPT ![c] =
                      Finish([app |-> r.app, route |-> r.route, deviceId |-> r.deviceId,
                              limit |-> r.limit],
                             ServerError("find failed"))]
        /\ UNCHANGED <<workload, collection, oids, sent>>

to_list(c) == FindReturns(c) \/ FindRaises(c)

\* The response leaves the service; the client may send its next request.
Deliver(c) ==
    /\ req[c].pc = "done"
    /\ req' = [req EXCEPT ![c] = Idle]
    /\ UNCHANGED <<workload, collection, oids, sent>>

Next ==
    \/ \E c \in workload.clients : receive_traffic_data(c)
    \/ \E c \in workload.clients : receive_environmental_data(c)
    \/ \E c \in workload.clients : receive_weather_data(c)
    \/ \E c \in workload.clients : receive_airquality_data(c)
    \/ \E c \in workload.clients : main_receive_environmental_data(c)
    \/ \E c \in workload.clients : main_receive_weather_data(c)
    \/ \E c \in workload.clients : main_receive_airquality_data(c)
    \/ \E c \in workload.clients : insert_one(c)
    \/ \E c \in workload.clients : get_device_data(c)
    \/ \E c \in workload.clients : to_list(c)
    \/ \E c \in workload.clients : Deliver(c)

Spec == Init /\ [][Next]_vars

\* The query path over documents of two devices, stored by either application.
QueryInit == InitWith(QueryWorkload)

QueryNext ==
    \/ \E c \in workload.clients : receive_environmental_data(c)
    \/ \E c \in workload.clients : main_receive_environmental_data(c)
    \/ \E c \in workload.clients : insert_one(c)
    \/ \E c \in workload.clients : get_device_data(c)
    \/ \E c \in workload.clients : to_list(c)
    \/ \E c \in workload.clients : Deliver(c)

QuerySpec == QueryInit /\ [][QueryNext]_vars

\* Two clients whose requests interleave.
ConcurrentInit == InitWith(ConcurrentWorkload)

ConcurrentNext ==
    \/ \E c \in workload.clients : receive_weather_data(c)
    \/ \E c \in workload.clients : main_receive_weather_data(c)
    \/ \E c \in workload.clients : insert_one(c)
    \/ \E c \in workload.clients : get_device_data(c)
    \/ \E c \in workload.clients : to_list(c)
    \/ \E c \in workload.clients : Deliver(c)

ConcurrentSpec == ConcurrentInit /\ [][ConcurrentNext]_vars

(***************************************************************************)
(* Properties.                                                             *)
(***************************************************************************)
Answered == {c \in DOMAIN req : req[c].pc = "done"}

\* Finished POST requests, and those among them whose handler ran.
Posts == {c \in Answered : req[c].route \in PostRoutes}

HandledPosts == {c \in Posts : Validates(SchemaOf(req[c].route), req[c].body)}

\* Finished GET requests, and those among them for which to_list returned.
Gets == {c \in Answered : req[c].route = GetRoute}

ReturnedGets == {c \in Gets : "results" \in DOMAIN req[c]}

OkGets == {c \in Gets : req[c].response.status = HTTP_200_OK}

Ids(docs) == {docs[i]._id : i \in 1..Len(docs)}

DocsOf(deviceId) == {i \in 1..Len(collection) : collection[i].deviceId = deviceId}

\* C1: every item a query returns carries exactly the timestamp of the
\* payload its record was ingested with.
C1_RoundTrip ==
    \A c \in OkGets :
        \A i \in 1..Len(req[c].response.body) :
            LET item == req[c].response.body[i]
            IN  item.timestamp = sent[item._id[2]]

\* C2: a query that finds no record of the device (to_list returned nothing
\* although the limit allowed a record) is answered 404.
C2_EmptyQueryNotFound ==
    \A c \in ReturnedGets :
        (req[c].results = << >> /\ req[c].limit >= 1)
            => req[c].response.status = HTTP_404_NOT_FOUND

\* C3: a successful query never returns more than limit records, whatever
\* integer the limit is.
C3_AtMostLimit ==
    \A c \in OkGets : Len(req[c].response.body) <= req[c].limit

\* C3 witness: a query with limit 1 answered one record while an older
\* document of the same device was left out.
C3_Truncated ==
    \E c \in OkGets :
        /\ req[c].limit = 1
        /\ Len(req[c].response.body) = 1
        /\ \E i \in DocsOf(req[c].deviceId) : collection[i]._id < req[c].results[1]._id

\* C4 as stated: adjacent items of a successful query have strictly
\* decreasing timestamps.
C4_StrictlyDescending ==
    \A c \in OkGets :
        \A i \in 1..(Len(req[c].response.body) - 1) :
            BigLess(req[c].response.body[i + 1].timestamp, req[c].response.body[i].timestamp)

\* C4 amended: adjacent items of a successful query have non-increasing
\* timestamps (equal timestamps are allowed).
C4_Descending ==
    \A c \in OkGets :
        \A i \in 1..(Len(req[c].response.body) - 1) :
            BigLeq(req[c].response.body[i + 1].timestamp, req[c].response.body[i].timestamp)

\* C4 witness: a successful query returned two items of different timestamps
\* whose documents were inserted oldest-timestamp first.
C4_TwoOrdered ==
    \E c \in OkGets :
        /\ Len(req[c].response.body) >= 2
        /\ BigLess(req[c].response.body[2].timestamp, req[c].response.body[1].timestamp)
        /\ req[c].results[2]._id < req[c].results[1]._id

\* C5: every stored document carries a category tag, and the document of an
\* acknowledged ingest carries the category of the endpoint that took it.
C5_EveryRecordTagged ==
    /\ \A i \in 1..Len(collection) :
          /\ "data_type" \in DOMAIN collection[i]
          /\ collection[i].data_type \in {DataTypeOf(route) : route \in PostRoutes}
    /\ \A c \in Posts :
          "inserted_id" \in DOMAIN req[c] =>
              \A i \in 1..Len(collection) :
                  collection[i]._id = req[c].inserted_id =>
                      /\ "data_type" \in DOMAIN collection[i]
                      /\ collection[i].data_type = DataTypeOf(req[c].route)

\* C6: a POST whose insert succeeded is answered 201 with a status and the
\* deviceId of the payload, in either application.
C6_Created ==
    \A c \in Posts :
        "inserted_id" \in DOMAIN req[c] =>
            /\ req[c].response.status = HTTP_201_CREATED
            /\ req[c].response.body.status = "success"
            /\ req[c].response.body.deviceId = req[c].body.deviceId.val

\* C7: a handler whose insert, find or timestamp conversion failed answers
\* 500 with the error's message; a handler answers 201, 200 or 500 and
\* otherwise only 404, which is the answer of a query without results.
C7_FailuresAre500Except404 ==
    /\ \A c \in HandledPosts :
          "inserted_id" \notin DOMAIN req[c] =>
              /\ req[c].response.status = HTTP_500_INTERNAL_SERVER_ERROR
              /\ req[c].response.body.detail \in {"insert failed", "year 10000 is out of range"}
    /\ \A c \in Gets \ ReturnedGets :
          /\ req[c].response.status = HTTP_500_INTERNAL_SERVER_ERROR
          /\ req[c].response.body.detail \in {"find failed", "length must be non-negative"}
    /\ \A c \in HandledPosts \cup Gets :
          req[c].response.status \notin
              {HTTP_201_CREATED, HTTP_200_OK, HTTP_500_INTERNAL_SERVER_ERROR}
                  => /\ req[c].response.status = HTTP_404_NOT_FOUND
                     /\ c \in ReturnedGets
                     /\ req[c].results = << >>
    /\ \A c \in ReturnedGets :
          req[c].results = << >> => req[c].response.status = HTTP_404_NOT_FOUND

\* A request of client c is answered in this step.
Answers(c) == req[c].pc # "done" /\ req'[c].pc = "done"

C9_AppendOnly ==
    /\ [](\A i, j \in 1..Len(collection) : collection[i]._id = collection[j]._id => i = j)
    /\ [][/\ Len(collection') >= Len(collection)
          /\ SubSeq(collection', 1, Len(collection)) = collection
          /\ \A c \in DOMAIN req :
                (Answers(c) /\ "inserted_id" \in DOMAIN req'[c])
                    => /\ Len(collection') = Len(collection) + 1
                       /\ collection'[Len(collection')]._id = req'[c].inserted_id
                       /\ req'[c].inserted_id \notin Ids(collection)
          /\ collection' # collection
                => \E c \in DOMAIN req : Answers(c) /\ "inserted_id" \in DOMAIN req'[c]
          /\ \A c \in DOMAIN req :
                (req[c].pc = "to_list" /\ req'[c] # req[c]) => collection' = collection]_vars

\* C9 witness: an insert and a query are in flight at once, after an earlier
\* insert was stored.
C9_Interleaved ==
    /\ Len(collection) >= 1
    /\ \E c, d \in DOMAIN req : req[c].pc = "insert_one" /\ req[d].pc = "to_list"

\* C10: when to_list returns for a query with limit >= 1 on a device with
\* n >= 1 documents and the query succeeds, it returns min(limit, n)
\* documents, all of them distinct documents of the collection with the
\* requested deviceId, and no document of the device left out is more recent
\* than a returned one.
C10_MostRecent ==
    [][\A c \in DOMAIN req :
          (/\ req[c].pc = "to_list"
           /\ Answers(c)
           /\ req'[c].response.status = HTTP_200_OK
           /\ req[c].limit >= 1)
              => LET out  == req'[c].response.body
                     kept == {i \in DocsOf(req[c].deviceId) :
                                 \E k \in 1..Len(out) : out[k]._id = ObjectIdStr(collection[i]._id)}
                 IN  /\ Len(out) = Min(req[c].limit, Cardinality(DocsOf(req[c].deviceId)))
                     /\ Cardinality(kept) = Len(out)
                     /\ \A k \in 1..Len(out) : out[k].deviceId = req[c].deviceId
                     /\ \A i \in DocsOf(req[c].deviceId) \ kept : \A j \in kept :
                           BigLeq(collection[i].timestamp, collection[j].timestamp)]_vars

\* C10 witness: a query with limit 1 returned a document of its device while
\* an older document of the same device with a smaller timestamp and a
\* document of the other device were in the collection.
C10_LeftOutOlder ==
    \E c \in OkGets :
        /\ req[c].limit = 1
        /\ \E i \in DocsOf(req[c].deviceId) :
              /\ collection[i]._id < req[c].results[1]._id
              /\ BigLess(collection[i].timestamp, req[c].results[1].timestamp)
        /\ \E i \in 1..Len(collection) :
              /\ collection[i].deviceId # req[c].deviceId
              /\ collection[i]._id < req[c].results[1]._id

====
